---- MODULE Spec2Model ----
(***************************************************************************)
(* Model of the minecraft-pack-automation scripts:                         *)
(*   scripts/resolve_versions.py  (version resolver, the core)             *)
(*   scripts/update_pack.py       (pack.mcmeta patcher)                    *)
(*   scripts/read_version.py      (pack version reader)                    *)
(*                                                                         *)
(* Python strings are sequences of one-character strings, so that          *)
(* formatting, splitting, stripping and ordering are computed and not      *)
(* assumed.  An optional value (Python None) is a record with a `some`     *)
(* flag.                                                                   *)
(***************************************************************************)
EXTENDS Integers, Sequences, FiniteSets, TLC

\* ------------------------------------------------------------------------
\* Bounds of the model
\* ------------------------------------------------------------------------

\* longest catalog response (number of entries of versions/data.json)
MaxCatalog == 3

\* longest versions listing answered by the registry
MaxArtifacts == 2

\* number of update_pack_mcmeta calls in one behaviour
MaxCalls == 3

\* ------------------------------------------------------------------------
\* Python values
\* ------------------------------------------------------------------------

None == [some |-> FALSE, val |-> <<>>]

Some(v) == [some |-> TRUE, val |-> v]

\* exit status of a process that has not ended
Running == -1

NoneInt == [some |-> FALSE, val |-> 0]

SomeInt(n) == [some |-> TRUE, val |-> n]

\* code-point order of the characters the model uses
CharOrder == <<"\n", " ", "(", ")", "-", ".", "0", "1", "2", "3", "4", "5", "6",
               "7", "8", "9", "A", "M", "P", "a", "c", "d", "e", "f", "i", "k",
               "n", "o", "p", "r", "t", "u", "v", "y">>

Ord(c) == CHOOSE i \in 1..Len(CharOrder) : CharOrder[i] = c

\* Python str < str: lexicographic by code point
RECURSIVE StrLess(_, _)
StrLess(a, b) ==
    IF b = <<>> THEN FALSE
    ELSE IF a = <<>> THEN TRUE
    ELSE IF Head(a) = Head(b) THEN StrLess(Tail(a), Tail(b))
    ELSE Ord(Head(a)) < Ord(Head(b))

Digit(d) == <<"0", "1", "2", "3", "4", "5", "6", "7", "8", "9">>[d + 1]

\* str(n) of a non-negative int, as the f-string {pf} formats it
RECURSIVE IntToStr(_)
IntToStr(n) ==
    IF n < 10 THEN <<Digit(n)>>
    ELSE IntToStr(n \div 10) \o <<Digit(n % 10)>>

IsSpace(c) == c \in {" ", "\n"}

\* str.strip()
RECURSIVE LStrip(_)
LStrip(s) == IF s # <<>> /\ IsSpace(Head(s)) THEN LStrip(Tail(s)) ELSE s

RECURSIVE RStrip(_)
RStrip(s) ==
    IF s # <<>> /\ IsSpace(s[Len(s)]) THEN RStrip(SubSeq(s, 1, Len(s) - 1)) ELSE s

Strip(s) == RStrip(LStrip(s))

\* index of the first occurrence of p in s (1-based), 0 when absent: s.find(p)
Find(s, p) ==
    LET hits == {i \in 1..(Len(s) - Len(p) + 1) : SubSeq(s, i, i + Len(p) - 1) = p}
    IN IF hits = {} THEN 0 ELSE CHOOSE i \in hits : \A j \in hits : i <= j

\* s.split(sep)[0]
SplitFirst(s, sep) ==
    LET i == Find(s, sep) IN IF i = 0 THEN s ELSE SubSeq(s, 1, i - 1)

\* number of (possibly overlapping) occurrences of p in s
CountOcc(s, p) ==
    Cardinality({i \in 1..(Len(s) - Len(p) + 1) : SubSeq(s, i, i + Len(p) - 1) = p})

SeqToSet(s) == {s[i] : i \in 1..Len(s)}

\* all sequences over S of length at most n
SeqsUpTo(S, n) == UNION {[1..k -> S] : k \in 0..n}

\* seq[:n]
Take(s, n) == SubSeq(s, 1, IF Len(s) < n THEN Len(s) ELSE n)

\* ------------------------------------------------------------------------
\* Strings of the model
\* ------------------------------------------------------------------------

V_1_9 == <<"1", ".", "9">>

V_1_10 == <<"1", ".", "1", "0">>

V_1_20 == <<"1", ".", "2", "0">>

V_1_21 == <<"1", ".", "2", "1">>

PV_1_0_0 == <<"1", ".", "0", ".", "0">>

PV_2_0_0 == <<"2", ".", "0", ".", "0">>

Newline == <<"\n">>

\* ------------------------------------------------------------------------
\* resolve_versions.py : get_pack_version
\* ------------------------------------------------------------------------

NoFile == [exists |-> FALSE, readable |-> FALSE, text |-> <<>>]

File(t) == [exists |-> TRUE, readable |-> TRUE, text |-> t]

UnreadableFile == [exists |-> TRUE, readable |-> FALSE, text |-> <<>>]

\* truth value of an optional string: `if x:`
Truthy(x) == x.some /\ x.val # <<>>

Returned(v) == [exited |-> FALSE, value |-> v, err |-> ""]

Exited(msg) == [exited |-> TRUE, value |-> <<>>, err |-> msg]

get_pack_version(env_ver, cwd_version, automation_version) ==
    IF Truthy(env_ver) THEN Returned(Strip(env_ver.val))
    ELSE IF cwd_version.exists
    THEN IF cwd_version.readable
         THEN Returned(Strip(cwd_version.text))
         ELSE Exited("ERROR: Failed to read caller VERSION file")
    ELSE IF automation_version.exists
    THEN IF automation_version.readable
         THEN Returned(Strip(automation_version.text))
         ELSE Exited("ERROR: Failed to read automation VERSION file")
    ELSE Exited("ERROR: VERSION not found. Provide PACK_VERSION env or a VERSION file.")

\* ------------------------------------------------------------------------
\* resolve_versions.py : fetch_minecraft_releases
\* ------------------------------------------------------------------------

MinecraftVersion(v, pf) == [version |-> v, pack_format |-> pf]

Entry(t, id, rpv) == [type |-> t, id |-> id, resource_pack_version |-> rpv]

\* the entries a catalog response is built from
CatalogEntries ==
    { Entry("release", Some(V_1_9), SomeInt(9)),
      Entry("release", Some(V_1_10), SomeInt(9)),
      Entry("release", Some(V_1_20), SomeInt(15)),
      Entry("snapshot", Some(V_1_21), SomeInt(15)),
      Entry("release", Some(V_1_21), NoneInt),
      Entry("release", None, SomeInt(15)) }

\* what the catalog request can answer: a JSON array, no answer, or a body
\* that is not a JSON array of objects
CatalogResponses ==
    { [status |-> "ok", body |-> b] : b \in SeqsUpTo(CatalogEntries, MaxCatalog) }
    \cup { [status |-> "unreachable", body |-> <<>>],
           [status |-> "malformed", body |-> <<>>] }

IsRelease(e) == e.type = "release"

\* line 104: `if version_str and resource_pack_version is not None`
Kept(e) == Truthy(e.id) /\ e.resource_pack_version.some

RECURSIVE CollectReleases(_)
CollectReleases(body) ==
    IF body = <<>> THEN <<>>
    ELSE LET e == Head(body)
             rest == CollectReleases(Tail(body))
         IN IF IsRelease(e) /\ Kept(e)
            THEN <<MinecraftVersion(e.id.val, e.resource_pack_version.val)>> \o rest
            ELSE rest

RECURSIVE CollectSkipped(_)
CollectSkipped(body) ==
    IF body = <<>> THEN <<>>
    ELSE LET e == Head(body)
             rest == CollectSkipped(Tail(body))
         IN IF IsRelease(e) /\ ~Kept(e) THEN <<e.id>> \o rest ELSE rest

Diag(msg, n) == [msg |-> msg, n |-> n]

CatalogError == Diag("ERROR: Failed to fetch Minecraft releases from misode/mcmeta API", 0)

\* ', '.join(skipped[:5]) raises TypeError on an element that is None
JoinRaises(strs) == \E i \in 1..Len(strs) : ~strs[i].some

fetch_minecraft_releases(response) ==
    IF response.status # "ok"
    THEN [exited |-> TRUE, releases |-> <<>>, diag |-> <<CatalogError>>]
    ELSE LET releases == CollectReleases(response.body)
             skipped == CollectSkipped(response.body)
         IN IF skipped # <<>> /\ JoinRaises(Take(skipped, 5))
            THEN [exited |-> TRUE, releases |-> <<>>, diag |-> <<CatalogError>>]
            ELSE [exited |-> FALSE,
                  releases |-> releases,
                  diag |-> (IF skipped # <<>>
                            THEN <<Diag("[!] Skipped versions without pack_format data",
                                        Len(skipped))>>
                            ELSE <<>>)
                           \o <<Diag("[+] Found Minecraft release versions", Len(releases))>>]

\* ------------------------------------------------------------------------
\* resolve_versions.py : resolve_modrinth_project_id, fetch_modrinth_versions
\* ------------------------------------------------------------------------

PROJECT_ID == <<"A", "a", "1">>

\* answers of GET /v2/project/{id_or_slug}
LookupResponses == {"found", "no_id", "404", "http_error", "failure"}

\* every HTTP error fatal, 404 included
resolve_project_404_fatal(answer) ==
    CASE answer = "found" ->
            [exited |-> FALSE, pid |-> Some(PROJECT_ID), diag |-> <<>>]
      [] answer = "no_id" ->
            [exited |-> FALSE, pid |-> None,
             diag |-> <<Diag("WARNING: Unable to resolve Modrinth project id", 0)>>]
      [] answer \in {"404", "http_error"} ->
            [exited |-> TRUE, pid |-> None,
             diag |-> <<Diag("ERROR: Modrinth API error while resolving project", 0)>>]
      [] OTHER ->
            [exited |-> TRUE, pid |-> None,
             diag |-> <<Diag("ERROR: Failed to resolve Modrinth project id", 0)>>]

resolve_modrinth_project_id(answer) ==
    CASE answer = "found" ->
            [exited |-> FALSE, pid |-> Some(PROJECT_ID), diag |-> <<>>]
      [] answer = "no_id" ->
            [exited |-> FALSE, pid |-> None,
             diag |-> <<Diag("WARNING: Unable to resolve Modrinth project id", 0)>>]
      [] answer = "404" ->
            [exited |-> FALSE, pid |-> None,
             diag |-> <<Diag("[!] Project not found on Modrinth (possibly first upload)", 0)>>]
      [] answer = "http_error" ->
            [exited |-> TRUE, pid |-> None,
             diag |-> <<Diag("ERROR: Modrinth API error while resolving project", 0)>>]
      [] OTHER ->
            [exited |-> TRUE, pid |-> None,
             diag |-> <<Diag("ERROR: Failed to resolve Modrinth project id", 0)>>]

Artifact(vn, gv) == [version_number |-> vn, game_versions |-> gv]

\* "<pack_version>-pf<pf>" (lines 278 and 285)
VersionNumber(pack_version, pf) == pack_version \o <<"-", "p", "f">> \o IntToStr(pf)

\* the artifacts a versions listing is built from
Artifacts ==
    { Artifact(VersionNumber(PV_1_0_0, 9), <<V_1_9, V_1_10>>),
      Artifact(VersionNumber(PV_1_0_0, 9), <<V_1_10>>),
      Artifact(<<>>, <<V_1_9, V_1_20>>),
      Artifact(VersionNumber(PV_1_0_0, 15), <<V_1_20>>),
      Artifact(VersionNumber(PV_1_0_0, 15), <<V_1_10, V_1_20>>) }

\* answers of GET /v2/project/{id}/versions
ListingResponses ==
    { [status |-> "ok", body |-> b] : b \in SeqsUpTo(Artifacts, MaxArtifacts) }
    \cup { [status |-> "404", body |-> <<>>],
           [status |-> "http_error", body |-> <<>>],
           [status |-> "failure", body |-> <<>>] }

\* a Python dict is the sequence of its (key, value) items in insertion order
DictHas(d, k) == \E i \in 1..Len(d) : d[i].key = k

DictIndex(d, k) == CHOOSE i \in 1..Len(d) : d[i].key = k

\* d.get(k, [])
DictGet(d, k) == IF DictHas(d, k) THEN d[DictIndex(d, k)].val ELSE <<>>

DictKeys(d) == [i \in 1..Len(d) |-> d[i].key]

\* pack_versions[k].extend(vs), creating the list first when k is new
DictExtend(d, k, vs) ==
    IF DictHas(d, k)
    THEN [d EXCEPT ![DictIndex(d, k)].val = @ \o vs]
    ELSE Append(d, [key |-> k, val |-> vs])

EmptySnapshot == [game_versions |-> {}, pack_versions |-> <<>>]

\* lines 174-192: the listing folded into the snapshot
RECURSIVE FoldListing(_, _)
FoldListing(snapshot, versions) ==
    IF versions = <<>> THEN snapshot
    ELSE LET version == Head(versions)
             version_number == version.version_number
             game_vers == version.game_versions
         IN FoldListing(
                [game_versions |-> snapshot.game_versions \cup SeqToSet(game_vers),
                 pack_versions |-> IF version_number # <<>>
                                   THEN DictExtend(snapshot.pack_versions,
                                                   version_number, game_vers)
                                   ELSE snapshot.pack_versions],
                Tail(versions))

\* lines 170-202: the versions request and its folding, for a resolved id
fetch_modrinth_versions(response) ==
    CASE response.status = "ok" ->
            [exited |-> FALSE, data |-> FoldListing(EmptySnapshot, response.body),
             diag |-> <<>>]
      [] response.status = "404" ->
            [exited |-> TRUE, data |-> EmptySnapshot,
             diag |-> <<Diag("ERROR: Versions endpoint returned 404 for project", 0)>>]
      [] response.status = "http_error" ->
            [exited |-> TRUE, data |-> EmptySnapshot,
             diag |-> <<Diag("ERROR: Modrinth API error", 0)>>]
      [] OTHER ->
            [exited |-> TRUE, data |-> EmptySnapshot,
             diag |-> <<Diag("ERROR: Failed to fetch Modrinth versions", 0)>>]

\* ------------------------------------------------------------------------
\* resolve_versions.py : group_by_pack_format
\* ------------------------------------------------------------------------

GroupHas(groups, pf) == \E i \in 1..Len(groups) : groups[i].pack_format = pf

GroupIndex(groups, pf) == CHOOSE i \in 1..Len(groups) : groups[i].pack_format = pf

NewGroup(pf) ==
    [pack_format |-> pf, all_versions |-> <<>>, missing_versions |-> <<>>,
     needs_upload |-> FALSE]

\* one turn of the loop of lines 248-262
AddReleaseFirstGroup(groups, release, modrinth_game_versions) ==
    LET gs == IF groups = <<>> THEN <<NewGroup(release.pack_format)>> ELSE groups
    IN [gs EXCEPT ![1].all_versions = Append(@, release.version)]

AddRelease(groups, release, modrinth_game_versions) ==
    LET pf == release.pack_format
        gs == IF GroupHas(groups, pf) THEN groups ELSE Append(groups, NewGroup(pf))
        i == GroupIndex(gs, pf)
    IN [gs EXCEPT
          ![i].all_versions = Append(@, release.version),
          ![i].missing_versions =
              IF release.version \notin modrinth_game_versions
              THEN Append(@, release.version)
              ELSE @]

RECURSIVE PartitionReleases(_, _, _)
PartitionReleases(minecraft_releases, n, modrinth_game_versions) ==
    IF n = 0 THEN <<>>
    ELSE AddRelease(PartitionReleases(minecraft_releases, n - 1, modrinth_game_versions),
                    minecraft_releases[n], modrinth_game_versions)

\* x placed after the elements of the sorted list that are not greater than it
RECURSIVE InsertSorted(_, _)
InsertSorted(sorted, x) ==
    IF sorted = <<>> THEN <<x>>
    ELSE IF StrLess(x, Head(sorted)) THEN <<x>> \o sorted
    ELSE <<Head(sorted)>> \o InsertSorted(Tail(sorted), x)

RECURSIVE SortedStrings(_)
SortedStrings(versions) ==
    IF versions = <<>> THEN <<>>
    ELSE InsertSorted(SortedStrings(SubSeq(versions, 1, Len(versions) - 1)),
                      versions[Len(versions)])

ListSortIdentity(versions) == versions

\* line 269: versions.sort()
ListSort(versions) == SortedStrings(versions)

\* lines 272-275, on the sorted list
VersionRange(versions) ==
    IF Len(versions) = 1 THEN versions[1]
    ELSE versions[1] \o <<"-">> \o versions[Len(versions)]

\* line 279: "Pack Format {pf} ({version_range})"
DisplayName(pf, version_range) ==
    <<"P", "a", "c", "k", " ", "F", "o", "r", "m", "a", "t", " ">>
    \o IntToStr(pf) \o <<" ", "(">> \o version_range \o <<")">>

Reason(msg, pack_version, pf, names, ellipsis) ==
    [msg |-> msg, pack_version |-> pack_version, pf |-> pf, names |-> names,
     ellipsis |-> ellipsis]

ReasonNotPublished(pack_version, pf) ==
    Reason("Pack version {pack_version} not on Modrinth for PF{pf}",
           pack_version, pf, <<>>, FALSE)

ReasonNewVersions(missing) ==
    Reason("New Minecraft versions: {missing[:3]}{...}",
           <<>>, 0, Take(missing, 3), Len(missing) > 3)

ReasonMismatch == Reason("Game version list mismatch", <<>>, 0, <<>>, FALSE)

ReasonUpToDate == Reason("Up-to-date", <<>>, 0, <<>>, FALSE)

Decision(needs_upload, upload_reason) ==
    [needs_upload |-> needs_upload, upload_reason |-> upload_reason]

\* the decision taken from the missing list alone
DecideByMissingOnly(pf, versions, missing_versions, modrinth_pack_versions, pack_version) ==
    IF missing_versions # <<>>
    THEN Decision(TRUE, ReasonNewVersions(missing_versions))
    ELSE Decision(FALSE, ReasonUpToDate)

\* lines 285-304 comparing the two lists and not their sets
DecideListCompare(pf, versions, missing_versions, modrinth_pack_versions, pack_version) ==
    LET version_number == VersionNumber(pack_version, pf)
        existing_game_versions == DictGet(modrinth_pack_versions, version_number)
    IN IF ~DictHas(modrinth_pack_versions, version_number)
       THEN Decision(TRUE, ReasonNotPublished(pack_version, pf))
       ELSE IF missing_versions # <<>>
       THEN Decision(TRUE, ReasonNewVersions(missing_versions))
       ELSE IF existing_game_versions # versions
       THEN Decision(TRUE, ReasonMismatch)
       ELSE Decision(FALSE, ReasonUpToDate)

\* lines 285-304: the upload decision of one group
Decide(pf, versions, missing_versions, modrinth_pack_versions, pack_version) ==
    LET version_number == VersionNumber(pack_version, pf)
        existing_game_versions == DictGet(modrinth_pack_versions, version_number)
    IN IF ~DictHas(modrinth_pack_versions, version_number)
       THEN Decision(TRUE, ReasonNotPublished(pack_version, pf))
       ELSE IF missing_versions # <<>>
       THEN Decision(TRUE, ReasonNewVersions(missing_versions))
       ELSE IF SeqToSet(existing_game_versions) # SeqToSet(versions)
       THEN Decision(TRUE, ReasonMismatch)
       ELSE Decision(FALSE, ReasonUpToDate)

\* one turn of the loop of lines 265-304
FinishGroup(group, modrinth_pack_versions, pack_version) ==
    LET pf == group.pack_format
        versions == ListSort(group.all_versions)
        version_range == VersionRange(versions)
        d == Decide(pf, versions, group.missing_versions, modrinth_pack_versions,
                    pack_version)
    IN [pack_format |-> pf,
        all_versions |-> versions,
        missing_versions |-> group.missing_versions,
        needs_upload |-> d.needs_upload,
        version_range |-> version_range,
        version_number |-> VersionNumber(pack_version, pf),
        display_name |-> DisplayName(pf, version_range),
        upload_reason |-> d.upload_reason]

\* the dict of groups, as the sequence of its values in insertion order
group_by_pack_format(minecraft_releases, modrinth_data, pack_version) ==
    LET groups == PartitionReleases(minecraft_releases, Len(minecraft_releases),
                                    modrinth_data.game_versions)
    IN [i \in 1..Len(groups) |->
          FinishGroup(groups[i], modrinth_data.pack_versions, pack_version)]

\* lines 349-352: the groups of the worklist
NeedsUploadAll(format_groups) == format_groups

NeedsUpload(format_groups) == SelectSeq(format_groups, LAMBDA g : g.needs_upload)

\* sorted(list(game_versions)): the set as an ascending list
RECURSIVE SortedSet(_)
SortedSet(S) ==
    IF S = {} THEN <<>>
    ELSE LET m == CHOOSE x \in S : \A y \in S : ~StrLess(y, x)
         IN <<m>> \o SortedSet(S \ {m})

\* lines 347-356: the JSON document printed on stdout
Output(pack_version, format_groups, modrinth_data) ==
    [pack_version |-> pack_version,
     groups |-> NeedsUpload(format_groups),
     all_groups |-> format_groups,
     modrinth_game_versions |-> SortedSet(modrinth_data.game_versions),
     modrinth_pack_versions |-> DictKeys(modrinth_data.pack_versions)]

\* ------------------------------------------------------------------------
\* update_pack.py : update_pack_mcmeta
\* ------------------------------------------------------------------------

\* " (Auto-updated", the separator of line 52
AUTO_MARKER == <<" ", "(", "A", "u", "t", "o", "-", "u", "p", "d", "a", "t", "e", "d">>

\* " (Auto-updated for Minecraft ", the constant head of the suffix of line 54
AUTO_SUFFIX_HEAD ==
    <<" ", "(", "A", "u", "t", "o", "-", "u", "p", "d", "a", "t", "e", "d", " ", "f", "o", "r", " ", "M", "i", "n", "e", "c", "r", "a", "f", "t", " ">>

\* the default of data["pack"].get("description", "Resource Pack")
DEFAULT_DESCRIPTION == <<"R", "e", "s", "o", "u", "r", "c", "e", " ", "P", "a", "c", "k">>

MY_PACK == <<"M", "y", " ", "P", "a", "c", "k">>

BASE_TEXT == <<"B", "a", "s", "e">>

\* line 54: " (Auto-updated for Minecraft {minecraft_version})"
AutoSuffix(minecraft_version) == AUTO_SUFFIX_HEAD \o minecraft_version \o <<")">>

\* the value of "description": absent, a string, or a JSON text component
NoDescription == [kind |-> "absent", text |-> <<>>]

StringDescription(text) == [kind |-> "string", text |-> text]

ComponentDescription == [kind |-> "component", text |-> <<>>]

\* the value of "pack": a JSON object, or a value that is no object
PackObject(pack_format, description) ==
    [is_object |-> TRUE, pack_format |-> pack_format, description |-> description]

PackNotObject == [is_object |-> FALSE, pack_format |-> 0, description |-> NoDescription]

\* the parsed document: its top-level kind, and its "pack" member if any
Document(kind, has_pack, pack) == [kind |-> kind, has_pack |-> has_pack, pack |-> pack]

\* the file: missing, not JSON, or holding a document
ManifestFile(exists, valid_json, writable, data) ==
    [exists |-> exists, valid_json |-> valid_json, writable |-> writable, data |-> data]

NoDocument == Document("none", FALSE, PackNotObject)

MissingManifest == ManifestFile(FALSE, FALSE, FALSE, NoDocument)

InvalidJsonManifest == ManifestFile(TRUE, FALSE, TRUE, NoDocument)

ValidManifest(pack_format, description, writable) ==
    ManifestFile(TRUE, TRUE, writable,
                 Document("object", TRUE, PackObject(pack_format, description)))

\* the descriptions a pack.mcmeta may hold before the first call
Descriptions ==
    { NoDescription,
      ComponentDescription,
      StringDescription(<<>>),
      StringDescription(MY_PACK),
      StringDescription(<<" ">> \o MY_PACK \o <<" ", "\n">>),
      StringDescription(MY_PACK \o AutoSuffix(V_1_9)),
      StringDescription(MY_PACK \o <<" ">> \o AutoSuffix(V_1_9)),
      StringDescription(MY_PACK \o AutoSuffix(V_1_9) \o AutoSuffix(V_1_20)) }

\* the files update_pack_mcmeta may be pointed at
Manifests ==
    { MissingManifest,
      InvalidJsonManifest,
      ManifestFile(TRUE, TRUE, TRUE, Document("array", FALSE, PackNotObject)),
      ManifestFile(TRUE, TRUE, TRUE, Document("number", FALSE, PackNotObject)),
      ManifestFile(TRUE, TRUE, TRUE, Document("object", FALSE, PackNotObject)),
      ManifestFile(TRUE, TRUE, TRUE, Document("object", TRUE, PackNotObject)),
      ValidManifest(9, StringDescription(MY_PACK), FALSE) }
    \cup { ValidManifest(9, d, TRUE) : d \in Descriptions }

Outcome(result, file) == [result |-> result, file |-> file]

\* line 52 without the split: the whole current description is the base
BaseOfNoSplit(current_desc) == Strip(current_desc)

\* line 52: current_desc.split(" (Auto-updated")[0].strip()
BaseOf(current_desc) == Strip(SplitFirst(current_desc, AUTO_MARKER))

\* lines 32-62, the body of the try: "True", "False", or the exception raised
TryUpdate(file, minecraft_version, pack_format, base_description) ==
    IF ~file.exists THEN Outcome("False", file)
    ELSE IF ~file.valid_json THEN Outcome("JSONDecodeError", file)
    ELSE IF file.data.kind = "number" THEN Outcome("TypeError", file)
    ELSE IF ~file.data.has_pack THEN Outcome("False", file)
    ELSE IF ~file.data.pack.is_object THEN Outcome("TypeError", file)
    ELSE LET description == file.data.pack.description
             current_desc == IF description.kind = "absent"
                             THEN DEFAULT_DESCRIPTION
                             ELSE description.text
         IN IF ~base_description.some /\ description.kind = "component"
            THEN Outcome("AttributeError", file)
            ELSE IF ~file.writable THEN Outcome("PermissionError", file)
            ELSE LET base == IF base_description.some
                             THEN base_description.val
                             ELSE BaseOf(current_desc)
                 IN Outcome("True",
                            [file EXCEPT
                               !.data.pack.pack_format = pack_format,
                               !.data.pack.description =
                                   StringDescription(base \o AutoSuffix(minecraft_version))])

Result(ret, raised, file) == [ret |-> ret, raised |-> raised, file |-> file]

\* lines 64-66 alone: only the JSON error is caught
update_pack_mcmeta_json_only(file, minecraft_version, pack_format, base_description) ==
    LET o == TryUpdate(file, minecraft_version, pack_format, base_description)
    IN CASE o.result = "True" -> Result(TRUE, FALSE, o.file)
         [] o.result \in {"False", "JSONDecodeError"} -> Result(FALSE, FALSE, o.file)
         [] OTHER -> Result(FALSE, TRUE, o.file)

\* lines 31-69: the flag returned, and whether an exception leaves the function
update_pack_mcmeta(file, minecraft_version, pack_format, base_description) ==
    LET o == TryUpdate(file, minecraft_version, pack_format, base_description)
    IN CASE o.result = "True" -> Result(TRUE, FALSE, o.file)
         [] o.result = "False" -> Result(FALSE, FALSE, o.file)
         [] o.result = "JSONDecodeError" -> Result(FALSE, FALSE, o.file)
         [] OTHER -> Result(FALSE, FALSE, o.file)

\* ------------------------------------------------------------------------
\* read_version.py
\* ------------------------------------------------------------------------

PV_3_0_0 == <<"3", ".", "0", ".", "0">>

PV_1_2_0 == <<"1", ".", "2", ".", "0">>

PV_1_1_0 == <<"1", ".", "1", ".", "0">>

PACK_NAME == <<"p", "a", "c", "k">>

TAG_V1_0 == <<"v", "1", ".", "0">>

TAG_V0_9 == <<"v", "0", ".", "9">>

BRANCH_MAIN == <<"m", "a", "i", "n">>

\* version.json: unreadable or no JSON object, or an object with its members
NoVersionJson == [valid |-> FALSE, version |-> None, pack_version |-> None, name |-> None]

VersionJson(version, pack_version, name) ==
    [valid |-> TRUE, version |-> version, pack_version |-> pack_version, name |-> name]

\* Python `a or b`
Or(a, b) == IF Truthy(a) THEN a ELSE b

\* lines 14-24
read_from_version_json(doc) ==
    IF ~doc.valid THEN None
    ELSE Or(doc.version, Or(doc.pack_version, doc.name))

\* what one run of a version reader did
Ran(script, source, lines, code, diag) ==
    [script |-> script, source |-> source, stdout |-> lines, exit_code |-> code,
     stderr |-> diag]

NotRun == Ran("none", "none", <<>>, Running, <<>>)

\* lines 59-67: the tag named by the workflow, else the latest git tag
TagOf(src) ==
    IF src.ref_type = "tag" /\ src.ref_name # <<>> THEN Some(src.ref_name)
    ELSE src.git_tag

\* main with the VERSION file consulted before version.json
read_version_file_first(src) ==
    LET v == read_from_version_json(src.version_json)
    IN IF Truthy(src.override)
       THEN Ran("read_version", "override", <<src.override.val>>, 0,
                <<Diag("[*] Using provided pack_version input", 0)>>)
       ELSE IF src.version_file.exists /\ src.version_file.readable
       THEN Ran("read_version", "version_file", <<Strip(src.version_file.text)>>, 0,
                <<Diag("[+] Found VERSION file", 0)>>)
       ELSE IF Truthy(v)
       THEN Ran("read_version", "version_json", <<v.val>>, 0,
                <<Diag("[+] Found version in version.json", 0)>>)
       ELSE IF Truthy(TagOf(src))
       THEN Ran("read_version", "tag", <<TagOf(src).val>>, 0,
                <<Diag("[*] Using tag", 0)>>)
       ELSE Ran("read_version", "none", <<>>, 0, <<>>)

\* lines 37-73: main
read_version_main(src) ==
    LET v == read_from_version_json(src.version_json)
    IN IF Truthy(src.override)
       THEN Ran("read_version", "override", <<src.override.val>>, 0,
                <<Diag("[*] Using provided pack_version input", 0)>>)
       ELSE IF Truthy(v)
       THEN Ran("read_version", "version_json", <<v.val>>, 0,
                <<Diag("[+] Found version in version.json", 0)>>)
       ELSE IF src.version_file.exists
       THEN IF src.version_file.readable
            THEN Ran("read_version", "version_file",
                     <<Strip(src.version_file.text)>>, 0,
                     <<Diag("[+] Found VERSION file", 0)>>)
            ELSE Ran("read_version", "version_file", <<>>, 1,
                     <<Diag("[+] Found VERSION file", 0),
                       Diag("Traceback (most recent call last)", 0)>>)
       ELSE IF src.ref_type = "tag" /\ src.ref_name # <<>>
       THEN Ran("read_version", "tag", <<src.ref_name>>, 0,
                <<Diag("[*] Using tag from GITHUB_REF_NAME", 0)>>)
       ELSE IF Truthy(src.git_tag)
       THEN Ran("read_version", "tag", <<src.git_tag.val>>, 0,
                <<Diag("[*] Using latest git tag", 0)>>)
       ELSE Ran("read_version", "none", <<>>, 0, <<>>)

\* the branch of get_pack_version that answered
PackVersionSource(src) ==
    IF Truthy(src.env_ver) THEN "override"
    ELSE IF src.version_file.exists THEN "version_file"
    ELSE IF src.automation_version.exists THEN "automation_version_file"
    ELSE "none"

\* resolve_versions.py lines 317-319: get_pack_version, as main calls it
pack_version_main(src) ==
    LET r == get_pack_version(src.env_ver, src.version_file, src.automation_version)
    IN IF r.exited
       THEN Ran("get_pack_version", PackVersionSource(src), <<>>, 1, <<Diag(r.err, 0)>>)
       ELSE Ran("get_pack_version", PackVersionSource(src), <<r.value>>, Running, <<>>)

Sources(override, version_json, version_file, ref, git_tag, env_ver, automation) ==
    [override |-> override, version_json |-> version_json,
     version_file |-> version_file, ref_type |-> ref.type, ref_name |-> ref.name,
     git_tag |-> git_tag, env_ver |-> env_ver, automation_version |-> automation]

NoSources ==
    Sources(None, NoVersionJson, NoFile, [type |-> "", name |-> <<>>], None, None, NoFile)

\* ------------------------------------------------------------------------
\* State
\* ------------------------------------------------------------------------

VARIABLES
    pc,             \* position of resolve_versions.py main
    pack_version,   \* main: pack_version
    catalog,        \* the answer the catalog request got
    mc_releases,    \* main: mc_releases
    requests,       \* the HTTP requests issued so far
    lookup,         \* the answer the project lookup got
    canonical_id,   \* fetch_modrinth_versions: canonical_id
    listing,        \* the answer the versions request got
    modrinth_data,  \* main: modrinth_data
    format_groups,  \* main: format_groups
    stdout,         \* documents printed on stdout
    stderr,         \* diagnostics printed on stderr
    exit_code,      \* -1 while running, then the exit status
    mcmeta,         \* the pack.mcmeta file
    mcmeta_before,  \* the pack.mcmeta file before the last call
    patch_calls,    \* the update_pack_mcmeta calls made, with their results
    vsrc,           \* the version sources a version reader finds
    vout,           \* what the version reader did
    up_pc,          \* position of upload_modrinth.py main
    up_argv,        \* sys.argv of the publisher
    up_game_versions, \* main: game_versions
    up_archive,     \* whether the file output_zip exists
    up_requests,    \* the upload requests issued, with their answers
    up_remove,      \* what os.remove(output_zip) did
    up_stderr,      \* diagnostics printed by the publisher
    up_exit_code,   \* -1 while running, then the exit status
    rc_round,       \* resolutions made against the registry so far
    rc_releases,    \* the releases of the catalog
    rc_pack_version, \* the pack version
    rc_registry,    \* the artifacts of the project, oldest first
    rc_groups,      \* format_groups of the last resolution
    rc_pending,     \* worklist groups of the last resolution not yet published
    ex_stdout,      \* lines printed by extract_groups.py
    ex_exit_code    \* -1 until extract_groups.py has run, then its exit status

resolverVars == <<pc, pack_version, catalog, mc_releases, requests, lookup,
                  canonical_id, listing, modrinth_data, format_groups, stdout, stderr, exit_code>>

patchVars == <<mcmeta, mcmeta_before, patch_calls>>

versionVars == <<vsrc, vout>>

uploadVars == <<up_pc, up_argv, up_game_versions, up_archive, up_requests, up_remove,
                up_stderr, up_exit_code>>

reconcileVars == <<rc_round, rc_releases, rc_pack_version, rc_registry, rc_groups, rc_pending>>

extractVars == <<ex_stdout, ex_exit_code>>

vars == <<resolverVars, patchVars, versionVars, uploadVars, reconcileVars, extractVars>>

NoResponse == [status |-> "none", body |-> <<>>]

\* ------------------------------------------------------------------------
\* resolve_versions.py : main
\* ------------------------------------------------------------------------

\* PACK_VERSION as the workflow may set it
EnvVersions == {None, Some(<<>>), Some(PV_1_0_0)}

\* the VERSION file of the caller repository
CwdVersionFiles == {NoFile, UnreadableFile, File(PV_1_0_0 \o Newline)}

\* the VERSION file next to the automation scripts
AutomationVersionFiles == {NoFile, UnreadableFile, File(PV_2_0_0 \o Newline)}

ResolverIdle ==
    /\ pc = "main"
    /\ pack_version = <<>>
    /\ catalog = NoResponse
    /\ mc_releases = <<>>
    /\ requests = <<>>
    /\ lookup = "none"
    /\ canonical_id = None
    /\ listing = NoResponse
    /\ modrinth_data = EmptySnapshot
    /\ format_groups = <<>>
    /\ stdout = <<>>
    /\ stderr = <<>>
    /\ exit_code = Running

\* sys.exit(1) after the diagnostics
Exit1(diag) ==
    /\ pc' = "exit"
    /\ exit_code' = 1
    /\ stderr' = stderr \o diag

\* lines 311-319: the argument check and get_pack_version
Main_GetPackVersion ==
    /\ pc = "main"
    /\ \E argc \in {1, 2}, env_ver \in EnvVersions, cwd_version \in CwdVersionFiles,
          automation_version \in AutomationVersionFiles :
          IF argc # 2
          THEN /\ Exit1(<<Diag("Usage: python3 resolve_versions.py <modrinth_project_id>", 0)>>)
               /\ UNCHANGED pack_version
          ELSE LET r == get_pack_version(env_ver, cwd_version, automation_version)
               IN IF r.exited
                  THEN /\ Exit1(<<Diag(r.err, 0)>>)
                       /\ UNCHANGED pack_version
                  ELSE /\ pack_version' = r.value
                       /\ pc' = "fetch_releases"
                       /\ UNCHANGED <<stderr, exit_code>>
    /\ UNCHANGED <<catalog, mc_releases, requests, lookup, canonical_id, listing,
                   modrinth_data, format_groups, stdout>>
    /\ UNCHANGED <<patchVars, versionVars, uploadVars, reconcileVars, extractVars>>

\* lines 321-323: fetch_minecraft_releases
Main_FetchReleases ==
    /\ pc = "fetch_releases"
    /\ \E response \in CatalogResponses :
          LET r == fetch_minecraft_releases(response)
          IN /\ catalog' = response
             /\ requests' = Append(requests, "catalog")
             /\ IF r.exited
                THEN /\ Exit1(r.diag)
                     /\ UNCHANGED mc_releases
                ELSE /\ mc_releases' = r.releases
                     /\ stderr' = stderr \o r.diag
                     /\ pc' = "resolve_project"
                     /\ UNCHANGED exit_code
    /\ UNCHANGED <<pack_version, lookup, canonical_id, listing, modrinth_data,
                   format_groups, stdout>>
    /\ UNCHANGED <<patchVars, versionVars, uploadVars, reconcileVars, extractVars>>

\* line 163: the project lookup of fetch_modrinth_versions
Main_ResolveProject ==
    /\ pc = "resolve_project"
    /\ \E answer \in LookupResponses :
          LET r == resolve_modrinth_project_id(answer)
          IN /\ lookup' = answer
             /\ requests' = Append(requests, "project")
             /\ IF r.exited
                THEN /\ Exit1(r.diag)
                     /\ UNCHANGED canonical_id
                ELSE /\ canonical_id' = r.pid
                     /\ stderr' = stderr \o r.diag
                     /\ pc' = "fetch_versions"
                     /\ UNCHANGED exit_code
    /\ UNCHANGED <<pack_version, catalog, mc_releases, listing, modrinth_data,
                   format_groups, stdout>>
    /\ UNCHANGED <<patchVars, versionVars, uploadVars, reconcileVars, extractVars>>

\* lines 165-168: no project, no versions request
Main_NoProject ==
    /\ pc = "fetch_versions"
    /\ ~canonical_id.some
    /\ modrinth_data' = EmptySnapshot
    /\ stderr' = Append(stderr, Diag("[+] No existing versions on Modrinth", 0))
    /\ pc' = "group"
    /\ UNCHANGED <<pack_version, catalog, mc_releases, requests, lookup,
                   canonical_id, listing, format_groups, stdout, exit_code>>
    /\ UNCHANGED <<patchVars, versionVars, uploadVars, reconcileVars, extractVars>>

\* lines 170-202: the versions request
Main_FetchVersions ==
    /\ pc = "fetch_versions"
    /\ canonical_id.some
    /\ \E response \in ListingResponses :
          LET r == fetch_modrinth_versions(response)
          IN /\ listing' = response
             /\ requests' = Append(requests, "versions")
             /\ IF r.exited
                THEN /\ Exit1(r.diag)
                     /\ UNCHANGED modrinth_data
                ELSE /\ modrinth_data' = r.data
                     /\ pc' = "group"
                     /\ UNCHANGED <<stderr, exit_code>>
    /\ UNCHANGED <<pack_version, catalog, mc_releases, lookup, canonical_id,
                   format_groups, stdout>>
    /\ UNCHANGED <<patchVars, versionVars, uploadVars, reconcileVars, extractVars>>

\* lines 330-358: grouping and the printed document
Main_Resolve ==
    /\ pc = "group"
    /\ LET groups == group_by_pack_format(mc_releases, modrinth_data, pack_version)
       IN /\ format_groups' = groups
          /\ stdout' = Append(stdout, Output(pack_version, groups, modrinth_data))
    /\ pc' = "done"
    /\ exit_code' = 0
    /\ UNCHANGED <<pack_version, catalog, mc_releases, requests, lookup,
                   canonical_id, listing, modrinth_data, stderr>>
    /\ UNCHANGED <<patchVars, versionVars, uploadVars, reconcileVars, extractVars>>

PatchIdle ==
    /\ mcmeta = MissingManifest
    /\ mcmeta_before = MissingManifest
    /\ patch_calls = <<>>

VersionIdle ==
    /\ vsrc = NoSources
    /\ vout = NotRun

UploadIdle ==
    /\ up_pc = "main"
    /\ up_argv = [argc |-> 0, version_number |-> <<>>, game_versions_csv |-> <<>>]
    /\ up_game_versions = <<>>
    /\ up_archive = FALSE
    /\ up_requests = <<>>
    /\ up_remove = "none"
    /\ up_stderr = <<>>
    /\ up_exit_code = Running

ReconcileIdle ==
    /\ rc_round = 0
    /\ rc_releases = <<>>
    /\ rc_pack_version = <<>>
    /\ rc_registry = <<>>
    /\ rc_groups = <<>>
    /\ rc_pending = {}

ExtractIdle ==
    /\ ex_stdout = <<>>
    /\ ex_exit_code = Running

\* the arguments of the calls
PatchVersions == {V_1_9, V_1_20}

PatchFormats == {9, 15}

BaseDescriptions == {None, Some(BASE_TEXT)}

Call(minecraft_version, pack_format, base_description, ret, raised) ==
    [minecraft_version |-> minecraft_version, pack_format |-> pack_format,
     base_description |-> base_description, ret |-> ret, raised |-> raised]

\* update_pack.py lines 81-93: one run of the patcher on the file
UpdatePackMcmeta ==
    /\ Len(patch_calls) < MaxCalls
    /\ \E minecraft_version \in PatchVersions, pack_format \in PatchFormats,
          base_description \in BaseDescriptions :
          LET r == update_pack_mcmeta(mcmeta, minecraft_version, pack_format,
                                      base_description)
          IN /\ mcmeta' = r.file
             /\ mcmeta_before' = mcmeta
             /\ patch_calls' = Append(patch_calls,
                                      Call(minecraft_version, pack_format,
                                           base_description, r.ret, r.raised))
    /\ UNCHANGED <<resolverVars, versionVars, uploadVars, reconcileVars, extractVars>>

InitPatch ==
    /\ ResolverIdle
    /\ VersionIdle
    /\ UploadIdle
    /\ ReconcileIdle
    /\ ExtractIdle
    /\ mcmeta \in Manifests
    /\ mcmeta_before = mcmeta
    /\ patch_calls = <<>>

NextPatch == UpdatePackMcmeta

SpecPatch == InitPatch /\ [][NextPatch]_vars

\* sys.argv[1] of read_version.py
Overrides == {None, Some(<<>>), Some(PV_3_0_0)}

VersionJsons ==
    { NoVersionJson,
      VersionJson(None, None, None),
      VersionJson(Some(PV_1_2_0), None, None),
      VersionJson(Some(<<>>), Some(PV_1_1_0), None),
      VersionJson(None, None, Some(PACK_NAME)) }

VersionFiles == {NoFile, UnreadableFile, File(<<>>), File(PV_1_0_0 \o Newline)}

\* GITHUB_REF_TYPE and GITHUB_REF_NAME
Refs == { [type |-> "", name |-> <<>>],
          [type |-> "tag", name |-> TAG_V1_0],
          [type |-> "branch", name |-> BRANCH_MAIN] }

\* git describe --tags --abbrev=0
GitTags == {None, Some(TAG_V0_9)}

\* PACK_VERSION
PackVersionEnvs == {None, Some(<<" ">>), Some(PV_1_0_0)}

\* read_version.py, run once on the sources
ReadVersionMain ==
    /\ vout.script = "none"
    /\ vout' = read_version_main(vsrc)
    /\ UNCHANGED <<vsrc, resolverVars, patchVars, uploadVars, reconcileVars, extractVars>>

\* get_pack_version, run once on the sources
GetPackVersionMain ==
    /\ vout.script = "none"
    /\ vout' = pack_version_main(vsrc)
    /\ UNCHANGED <<vsrc, resolverVars, patchVars, uploadVars, reconcileVars, extractVars>>

InitVersion ==
    /\ ResolverIdle
    /\ PatchIdle
    /\ UploadIdle
    /\ ReconcileIdle
    /\ ExtractIdle
    /\ vout = NotRun
    /\ \E override \in Overrides, version_json \in VersionJsons,
          version_file \in VersionFiles, ref \in Refs, git_tag \in GitTags,
          env_ver \in PackVersionEnvs, automation_version \in AutomationVersionFiles :
          vsrc = Sources(override, version_json, version_file, ref, git_tag,
                         env_ver, automation_version)

NextVersion == ReadVersionMain \/ GetPackVersionMain

SpecVersion == InitVersion /\ [][NextVersion]_vars

\* ------------------------------------------------------------------------
\* extract_groups.py
\* ------------------------------------------------------------------------

\* sep.join(strs)
RECURSIVE Join(_, _)
Join(strs, sep) ==
    IF strs = <<>> THEN <<>>
    ELSE IF Len(strs) = 1 THEN strs[1]
    ELSE strs[1] \o sep \o Join(Tail(strs), sep)

\* the printed line "GROUP_<i>_<name>=<value>", or "<name>=<value>" for the total
EnvLine(name, i, value) == [name |-> name, i |-> i, value |-> value]

\* lines 17-21: the two lines of group number i (counted from 0);
\* versions is group.get("versions", [])
GroupLines(i, group) ==
    LET versions == IF "versions" \in DOMAIN group THEN group.versions ELSE <<>>
    IN << EnvLine("VERSIONS", i, Join(versions, <<",">>)),
          EnvLine("PACK_FORMAT", i, IntToStr(group.pack_format)) >>

RECURSIVE AllGroupLines(_, _)
AllGroupLines(i, groups) ==
    IF groups = <<>> THEN <<>>
    ELSE GroupLines(i, Head(groups)) \o AllGroupLines(i + 1, Tail(groups))

\* lines 15-23, on the parsed document
extract_groups(data) ==
    LET groups == IF "groups" \in DOMAIN data THEN data.groups ELSE <<>>
    IN AllGroupLines(0, groups) \o <<EnvLine("TOTAL_GROUPS", 0, IntToStr(Len(groups)))>>

\* extract_groups.py run on the document resolve_versions.py printed
Extract_Main ==
    /\ pc = "done"
    /\ ex_exit_code = Running
    /\ ex_stdout' = extract_groups(stdout[Len(stdout)])
    /\ ex_exit_code' = 0
    /\ UNCHANGED <<resolverVars, patchVars, versionVars, uploadVars, reconcileVars>>

Init ==
    ResolverIdle /\ PatchIdle /\ VersionIdle /\ UploadIdle /\ ReconcileIdle /\ ExtractIdle

Next ==
    \/ Main_GetPackVersion
    \/ Main_FetchReleases
    \/ Main_ResolveProject
    \/ Main_NoProject
    \/ Main_FetchVersions
    \/ Main_Resolve
    \/ Extract_Main

Spec == Init /\ [][Next]_vars

\* ------------------------------------------------------------------------
\* upload_modrinth.py
\* ------------------------------------------------------------------------

\* registry answers one behaviour has ready for successive upload requests
MaxAnswers == 2

\* s.split(sep)
RECURSIVE Split(_, _)
Split(s, sep) ==
    LET i == Find(s, sep)
    IN IF i = 0 THEN <<s>>
       ELSE <<SubSeq(s, 1, i - 1)>> \o Split(SubSeq(s, i + Len(sep), Len(s)), sep)

\* line 205: [v.strip() for v in game_versions_csv.split(',') if v.strip()]
ParseGameVersions(game_versions_csv) ==
    LET parts == Split(game_versions_csv, <<",">>)
        stripped == [i \in 1..Len(parts) |-> Strip(parts[i])]
    IN SelectSeq(stripped, LAMBDA v : v # <<>>)

\* sys.argv[3] as the caller may pass it
GameVersionsCsvs ==
    { <<>>,
      V_1_20,
      V_1_20 \o <<",", " ">> \o V_1_21,
      <<",", " ">> }

\* lines 37-77; archive tells whether output_zip exists before the call; what
\* may go wrong inside: nothing, an exception before make_archive (lines
\* 48-62), an exception after it (lines 69-71)
create_zip(archive, fault) ==
    CASE fault = "none" ->
            [ret |-> TRUE, archive |-> TRUE, diag |-> <<Diag("[+] Created zip", 0)>>]
      [] fault = "before_archive" ->
            [ret |-> FALSE, archive |-> archive,
             diag |-> <<Diag("ERROR: Failed to create zip", 0)>>]
      [] OTHER ->
            [ret |-> FALSE, archive |-> TRUE,
             diag |-> <<Diag("ERROR: Failed to create zip", 0)>>]

\* answers to POST /v2/version: accepted, an HTTP error status, no answer
\* within 30 s, an accepted request whose response cannot be read
RegistryAnswers == {"ok", "http_error", "timeout", "broken_response"}

UploadRequest(version_number, game_versions, answer, ret) ==
    [version_number |-> version_number, game_versions |-> game_versions,
     answer |-> answer, ret |-> ret]

UploadFailed(sent, msg) == [ret |-> FALSE, requests |-> sent, diag |-> <<Diag(msg, 0)>>]

\* a publisher that tries once more after a failed request
upload_to_modrinth_retry(zip_exists, zip_readable, game_versions, version_number, answers) ==
    IF game_versions = <<>> \/ ~zip_exists \/ ~zip_readable
    THEN UploadFailed(<<>>, "ERROR: Upload failed")
    ELSE LET first == UploadRequest(version_number, game_versions, answers[1], answers[1] = "ok")
             second == UploadRequest(version_number, game_versions, answers[2], answers[2] = "ok")
         IN IF answers[1] = "ok"
            THEN [ret |-> TRUE, requests |-> <<first>>,
                  diag |-> <<Diag("[+] Upload successful", Len(game_versions))>>]
            ELSE IF answers[2] = "ok"
            THEN [ret |-> TRUE, requests |-> <<first, second>>,
                  diag |-> <<Diag("[+] Upload successful", Len(game_versions))>>]
            ELSE UploadFailed(<<first, second>>, "ERROR: Upload failed")

\* lines 104-186; answers[1] is what the registry answers to the request
upload_to_modrinth(zip_exists, zip_readable, game_versions, version_number, answers) ==
    IF game_versions = <<>>
    THEN \* game_versions[0] raises IndexError (lines 107-115)
         UploadFailed(<<>>, "ERROR: Upload failed")
    ELSE IF ~zip_exists
    THEN UploadFailed(<<>>, "ERROR: Zip file not found")
    ELSE IF ~zip_readable
    THEN UploadFailed(<<>>, "ERROR: Upload failed")
    ELSE LET answer == answers[1]
             request == UploadRequest(version_number, game_versions, answer, answer = "ok")
         IN CASE answer = "ok" ->
                    [ret |-> TRUE, requests |-> <<request>>,
                     diag |-> <<Diag("[+] Upload successful", Len(game_versions))>>]
              [] answer = "http_error" ->
                    UploadFailed(<<request>>, "ERROR: Modrinth API error")
              [] OTHER ->
                    UploadFailed(<<request>>, "ERROR: Upload failed")

\* sys.exit(1) of the publisher after the diagnostics
UploadExit1(diag) ==
    /\ up_pc' = "exit"
    /\ up_exit_code' = 1
    /\ up_stderr' = up_stderr \o diag

\* lines 191-211: the arguments
Upload_Main ==
    /\ up_pc = "main"
    /\ \E argc \in {5, 6, 7, 8},
          version_number \in {VersionNumber(PV_1_0_0, 9), VersionNumber(PV_1_0_0, 15)},
          game_versions_csv \in GameVersionsCsvs :
          /\ up_argv' = [argc |-> argc, version_number |-> version_number,
                         game_versions_csv |-> game_versions_csv]
          /\ IF argc < 6
             THEN /\ UploadExit1(<<Diag("Usage: python3 upload_modrinth.py", 0)>>)
                  /\ UNCHANGED up_game_versions
             ELSE IF game_versions_csv = <<>>
             THEN \* line 207 names Color, which the module does not define
                  /\ UploadExit1(<<Diag("NameError: name 'Color' is not defined", 0)>>)
                  /\ UNCHANGED up_game_versions
             ELSE /\ up_game_versions' = ParseGameVersions(game_versions_csv)
                  /\ up_pc' = "create_zip"
                  /\ UNCHANGED <<up_stderr, up_exit_code>>
    /\ UNCHANGED <<up_archive, up_requests, up_remove>>
    /\ UNCHANGED <<resolverVars, patchVars, versionVars, reconcileVars, extractVars>>

\* lines 213-215
Upload_CreateZip ==
    /\ up_pc = "create_zip"
    /\ \E fault \in {"none", "before_archive", "after_archive"} :
          LET r == create_zip(up_archive, fault)
          IN /\ up_archive' = r.archive
             /\ IF r.ret
                THEN /\ up_pc' = "upload"
                     /\ up_stderr' = up_stderr \o r.diag
                     /\ UNCHANGED up_exit_code
                ELSE UploadExit1(r.diag)
    /\ UNCHANGED <<up_argv, up_game_versions, up_requests, up_remove>>
    /\ UNCHANGED <<resolverVars, patchVars, versionVars, reconcileVars, extractVars>>

\* lines 217-219
Upload_Publish ==
    /\ up_pc = "upload"
    /\ \E zip_readable \in BOOLEAN, answers \in [1..MaxAnswers -> RegistryAnswers] :
          LET r == upload_to_modrinth(up_archive, zip_readable, up_game_versions,
                                      up_argv.version_number, answers)
          IN /\ up_requests' = up_requests \o r.requests
             /\ IF r.ret
                THEN /\ up_pc' = "cleanup"
                     /\ up_stderr' = up_stderr \o r.diag
                     /\ UNCHANGED up_exit_code
                ELSE UploadExit1(r.diag)
    /\ UNCHANGED <<up_argv, up_game_versions, up_archive, up_remove>>
    /\ UNCHANGED <<resolverVars, patchVars, versionVars, reconcileVars, extractVars>>

\* lines 221-228: os.remove in try/except, then the normal end of main
Upload_Cleanup ==
    /\ up_pc = "cleanup"
    /\ \E removed \in BOOLEAN :
          IF removed
          THEN /\ up_remove' = "ok"
               /\ up_archive' = FALSE
               /\ up_stderr' = up_stderr \o <<Diag("[+] Cleaned up temporary zip file", 0),
                                              Diag("[+] Upload workflow complete", 0)>>
          ELSE /\ up_remove' = "failed"
               /\ UNCHANGED up_archive
               /\ up_stderr' = Append(up_stderr, Diag("[+] Upload workflow complete", 0))
    /\ up_pc' = "done"
    /\ up_exit_code' = 0
    /\ UNCHANGED <<up_argv, up_game_versions, up_requests>>
    /\ UNCHANGED <<resolverVars, patchVars, versionVars, reconcileVars, extractVars>>

\* output_zip may be left over from an earlier run
InitUpload ==
    /\ ResolverIdle
    /\ PatchIdle
    /\ VersionIdle
    /\ ReconcileIdle
    /\ ExtractIdle
    /\ up_pc = "main"
    /\ up_argv = [argc |-> 0, version_number |-> <<>>, game_versions_csv |-> <<>>]
    /\ up_game_versions = <<>>
    /\ up_archive \in BOOLEAN
    /\ up_requests = <<>>
    /\ up_remove = "none"
    /\ up_stderr = <<>>
    /\ up_exit_code = Running

NextUpload ==
    \/ Upload_Main
    \/ Upload_CreateZip
    \/ Upload_Publish
    \/ Upload_Cleanup

SpecUpload == InitUpload /\ [][NextUpload]_vars

\* ------------------------------------------------------------------------
\* Reconciliation: resolve, publish the worklist, resolve again
\* ------------------------------------------------------------------------

\* resolutions made in one behaviour
MaxRounds == 2

\* resolve_versions.py lines 326-334 against the registry as it is now
Reconcile_Resolve ==
    /\ rc_round < MaxRounds
    /\ rc_pending = {}
    /\ LET r == fetch_modrinth_versions([status |-> "ok", body |-> rc_registry])
           groups == group_by_pack_format(rc_releases, r.data, rc_pack_version)
       IN /\ rc_groups' = groups
          /\ rc_pending' = SeqToSet(NeedsUpload(groups))
    /\ rc_round' = rc_round + 1
    /\ UNCHANGED <<rc_releases, rc_pack_version, rc_registry>>
    /\ UNCHANGED <<resolverVars, patchVars, versionVars, uploadVars, extractVars>>

\* one group of the worklist uploaded with its full version list under its
\* version_number (upload_modrinth.py lines 129-140) and accepted; the
\* registry appends the new artifact and keeps the others
Reconcile_Publish ==
    /\ \E group \in rc_pending :
          LET r == upload_to_modrinth(TRUE, TRUE, group.all_versions,
                                      group.version_number,
                                      [i \in 1..MaxAnswers |-> "ok"])
          IN /\ r.ret
             /\ rc_registry' = rc_registry \o
                    [i \in 1..Len(r.requests) |->
                        Artifact(r.requests[i].version_number, r.requests[i].game_versions)]
             /\ rc_pending' = rc_pending \ {group}
    /\ UNCHANGED <<rc_round, rc_releases, rc_pack_version, rc_groups>>
    /\ UNCHANGED <<resolverVars, patchVars, versionVars, uploadVars, extractVars>>

\* any release list fetch_minecraft_releases can return, any versions
\* listing the registry can hold
InitReconcile ==
    /\ ResolverIdle
    /\ PatchIdle
    /\ VersionIdle
    /\ UploadIdle
    /\ ExtractIdle
    /\ rc_round = 0
    /\ \E response \in CatalogResponses :
          /\ ~fetch_minecraft_releases(response).exited
          /\ rc_releases = fetch_minecraft_releases(response).releases
    /\ rc_pack_version \in {PV_1_0_0, PV_2_0_0}
    /\ rc_registry \in SeqsUpTo(Artifacts, MaxArtifacts)
    /\ rc_groups = <<>>
    /\ rc_pending = {}

NextReconcile == Reconcile_Resolve \/ Reconcile_Publish

SpecReconcile == InitReconcile /\ [][NextReconcile]_vars

\* ------------------------------------------------------------------------
\* Properties of the resolver
\* ------------------------------------------------------------------------

Count(seq, x) == Cardinality({i \in 1..Len(seq) : seq[i] = x})

Done == pc = "done"

\* the format ids and the versions of the releases handed to the resolver
ReleaseFormats == {mc_releases[i].pack_format : i \in 1..Len(mc_releases)}

ReleaseVersions == {mc_releases[i].version : i \in 1..Len(mc_releases)}

GroupFormats == {format_groups[i].pack_format : i \in 1..Len(format_groups)}

MappingKeys == {modrinth_data.pack_versions[i].key :
                   i \in 1..Len(modrinth_data.pack_versions)}

\* C1: the groups partition the releases: one group per format id, and a
\* version is listed in the group of a format id as many times as the input
\* holds a release with that version and that format id, and nowhere else.
C1_PartitionComplete ==
    Done =>
      /\ GroupFormats = ReleaseFormats
      /\ \A i, j \in 1..Len(format_groups) :
            format_groups[i].pack_format = format_groups[j].pack_format => i = j
      /\ \A i \in 1..Len(format_groups) :
            LET g == format_groups[i]
            IN /\ SeqToSet(g.all_versions) \subseteq ReleaseVersions
               /\ \A v \in ReleaseVersions :
                     Count(g.all_versions, v)
                       = Count(mc_releases, MinecraftVersion(v, g.pack_format))

\* three releases in two groups, one group holding two of them
C1_Witness ==
    /\ Done
    /\ Len(mc_releases) = 3
    /\ Len(format_groups) = 2
    /\ \E i \in 1..2 : Len(format_groups[i].all_versions) = 2

\* C2: a group whose version_number "<pack_version>-pf<format id>" is no key
\* of the artifact mapping needs upload, whatever is missing or covered.
C2_RuleAPrecedence ==
    Done =>
      \A i \in 1..Len(format_groups) :
         LET g == format_groups[i]
         IN /\ g.version_number
                 = pack_version \o <<"-", "p", "f">> \o IntToStr(g.pack_format)
            /\ g.version_number \notin MappingKeys => g.needs_upload

\* a group absent from the mapping whose versions are all in the registry's
\* game-version set, covered by an artifact of another pack version
C2_Witness ==
    /\ Done
    /\ \E i \in 1..Len(format_groups) :
          LET g == format_groups[i]
          IN /\ g.version_number \notin MappingKeys
             /\ g.missing_versions = <<>>
             /\ SeqToSet(g.all_versions) \subseteq modrinth_data.game_versions
             /\ MappingKeys # {}
             /\ g.needs_upload

\* the rule that applies to a group, read off the snapshot
RuleOf(g) ==
    LET declared == SeqToSet(DictGet(modrinth_data.pack_versions, g.version_number))
        missing == {v \in SeqToSet(g.all_versions) : v \notin modrinth_data.game_versions}
    IN IF g.version_number \notin MappingKeys THEN "a"
       ELSE IF missing # {} THEN "b"
       ELSE IF declared # SeqToSet(g.all_versions) THEN "c"
       ELSE "d"

RuleMessage(rule) ==
    CASE rule = "a" -> "Pack version {pack_version} not on Modrinth for PF{pf}"
      [] rule = "b" -> "New Minecraft versions: {missing[:3]}{...}"
      [] rule = "c" -> "Game version list mismatch"
      [] OTHER -> "Up-to-date"

\* C3: needs_upload and upload_reason are those of the first matching rule
\* a, b, c, d; needs_upload is false exactly under rule d.
C3_FirstMatchingRule ==
    Done =>
      \A i \in 1..Len(format_groups) :
         LET g == format_groups[i]
             rule == RuleOf(g)
         IN /\ g.needs_upload = (rule # "d")
            /\ g.upload_reason.msg = RuleMessage(rule)
            /\ rule = "a" => /\ g.upload_reason.pack_version = pack_version
                             /\ g.upload_reason.pf = g.pack_format
            /\ rule = "b" => /\ g.upload_reason.names = Take(g.missing_versions, 3)
                             /\ g.upload_reason.ellipsis = (Len(g.missing_versions) > 3)

\* the version_number is published, nothing is missing, the coverage differs
C3_Witness ==
    /\ Done
    /\ \E i \in 1..Len(format_groups) :
          LET g == format_groups[i]
          IN /\ g.version_number \in MappingKeys
             /\ g.missing_versions = <<>>
             /\ Len(g.all_versions) = 2
             /\ SeqToSet(DictGet(modrinth_data.pack_versions, g.version_number))
                  # SeqToSet(g.all_versions)
             /\ g.needs_upload
             /\ g.upload_reason = ReasonMismatch

\* the versions of the releases of one format id
VersionsOf(pf) ==
    {mc_releases[i].version : i \in {k \in 1..Len(mc_releases) :
                                        mc_releases[k].pack_format = pf}}

\* C4: all_versions is ascending in string order and version_range is the
\* single version, or "<min>-<max>" of the group's versions.
C4_SortedRange ==
    Done =>
      \A i \in 1..Len(format_groups) :
         LET g == format_groups[i]
             vs == g.all_versions
         IN /\ vs # <<>>
            /\ \A a, b \in 1..Len(vs) : a < b => ~StrLess(vs[b], vs[a])
            /\ \A v \in VersionsOf(g.pack_format) :
                  ~StrLess(v, vs[1]) /\ ~StrLess(vs[Len(vs)], v)
            /\ Len(vs) = 1 => g.version_range = vs[1]
            /\ Len(vs) > 1 => g.version_range = vs[1] \o <<"-">> \o vs[Len(vs)]

\* the catalog lists 1.9 before 1.10, the group lists 1.10 first
C4_Witness ==
    /\ Done
    /\ \E i, j \in 1..Len(mc_releases) :
          /\ i < j
          /\ mc_releases[i] = MinecraftVersion(V_1_9, 9)
          /\ mc_releases[j] = MinecraftVersion(V_1_10, 9)
    /\ \E i \in 1..Len(format_groups) :
          /\ format_groups[i].all_versions = <<V_1_10, V_1_9>>
          /\ format_groups[i].version_range = V_1_10 \o <<"-">> \o V_1_9

\* C5: after a "not found" lookup no versions request is issued, the run
\* goes on with the empty snapshot, and every group needs upload by rule a.
C5_NotFoundIsFirstUpload ==
    lookup = "404" =>
      /\ "versions" \notin SeqToSet(requests)
      /\ pc \in {"fetch_versions", "group", "done"}
      /\ exit_code # 1
      /\ listing = NoResponse
      /\ pc \in {"group", "done"} =>
            modrinth_data = [game_versions |-> {}, pack_versions |-> <<>>]
      /\ Done =>
            \A i \in 1..Len(format_groups) :
               /\ format_groups[i].needs_upload
               /\ format_groups[i].upload_reason
                    = ReasonNotPublished(pack_version, format_groups[i].pack_format)

C5_Witness ==
    /\ lookup = "404"
    /\ Done
    /\ Len(format_groups) = 2

\* C6: all_groups holds one group per format id of the releases, and groups
\* is the sub-list of all_groups whose needs_upload is true.
C6_WorklistIsFilter ==
    Done =>
      /\ Len(stdout) = 1
      /\ LET all == stdout[1].all_groups
             work == stdout[1].groups
         IN /\ {all[i].pack_format : i \in 1..Len(all)} = ReleaseFormats
            /\ Len(all) = Cardinality(ReleaseFormats)
            /\ \E f \in [1..Len(work) -> 1..Len(all)] :
                  /\ \A a, b \in 1..Len(work) : a < b => f[a] < f[b]
                  /\ \A k \in 1..Len(work) : work[k] = all[f[k]]
                  /\ \A i \in 1..Len(all) :
                        all[i].needs_upload <=> (\E k \in 1..Len(work) : f[k] = i)

\* one group of two is up to date and left out of the worklist
C6_Witness ==
    /\ Done
    /\ Len(stdout[1].all_groups) = 2
    /\ Len(stdout[1].groups) = 1
    /\ \E i \in 1..2 : ~stdout[1].all_groups[i].needs_upload

\* ------------------------------------------------------------------------
\* Properties of the patcher
\* ------------------------------------------------------------------------

LastCall == patch_calls[Len(patch_calls)]

\* every call so far succeeded and gave no base description
AllDerived ==
    /\ patch_calls # <<>>
    /\ \A i \in 1..Len(patch_calls) :
          patch_calls[i].ret /\ ~patch_calls[i].base_description.some

CurrentDescription == mcmeta.data.pack.description.text

EndsWith(s, p) == Len(p) <= Len(s) /\ SubSeq(s, Len(s) - Len(p) + 1, Len(s)) = p

\* C7: after any number of calls without a base description the description
\* holds one "(Auto-updated for Minecraft ...)" suffix, that of the last
\* call, and a call repeating the previous one leaves the manifest as it was.
C7_OneSuffix ==
    AllDerived =>
      /\ mcmeta.data.pack.description.kind = "string"
      /\ CountOcc(CurrentDescription, Tail(AUTO_SUFFIX_HEAD)) = 1
      /\ CountOcc(CurrentDescription, <<"(", "A", "u", "t", "o">>) = 1
      /\ EndsWith(CurrentDescription, AutoSuffix(LastCall.minecraft_version))
      /\ mcmeta.data.pack.pack_format = LastCall.pack_format
      /\ (/\ Len(patch_calls) >= 2
          /\ patch_calls[Len(patch_calls) - 1].minecraft_version
               = LastCall.minecraft_version
          /\ patch_calls[Len(patch_calls) - 1].pack_format = LastCall.pack_format)
         => mcmeta = mcmeta_before

\* a description that came with a suffix, patched for another version and
\* then twice for the same one
C7_Witness ==
    /\ AllDerived
    /\ Len(patch_calls) = 3
    /\ patch_calls[1].minecraft_version # patch_calls[2].minecraft_version
    /\ patch_calls[2].minecraft_version = patch_calls[3].minecraft_version
    /\ patch_calls[2].pack_format = patch_calls[3].pack_format
    /\ CurrentDescription = MY_PACK \o AutoSuffix(V_1_20)
    /\ mcmeta = mcmeta_before

\* the file of the last call was missing, no JSON, or no object with a
\* "pack" object
BadManifest(file) ==
    \/ ~file.exists
    \/ ~file.valid_json
    \/ file.data.kind # "object"
    \/ ~file.data.has_pack
    \/ ~file.data.pack.is_object

\* C8: on a missing file, invalid JSON, or a document without a "pack"
\* object the call returns false, raises nothing and leaves the file alone.
C8_FailureFlag ==
    (patch_calls # <<>> /\ BadManifest(mcmeta_before)) =>
      /\ ~LastCall.ret
      /\ ~LastCall.raised
      /\ mcmeta = mcmeta_before

\* a call on a document whose "pack" is no object
C8_Witness ==
    /\ patch_calls # <<>>
    /\ mcmeta_before.exists /\ mcmeta_before.valid_json
    /\ mcmeta_before.data.has_pack /\ ~mcmeta_before.data.pack.is_object
    /\ ~LastCall.ret
    /\ mcmeta = mcmeta_before

\* ------------------------------------------------------------------------
\* Properties of the version readers
\* ------------------------------------------------------------------------

\* what each source of read_version.py yields, nothing being the empty string
YieldOverride == IF Truthy(vsrc.override) THEN vsrc.override.val ELSE <<>>

YieldVersionJson ==
    LET doc == vsrc.version_json
    IN IF ~doc.valid THEN <<>>
       ELSE IF Truthy(doc.version) THEN doc.version.val
       ELSE IF Truthy(doc.pack_version) THEN doc.pack_version.val
       ELSE IF Truthy(doc.name) THEN doc.name.val
       ELSE <<>>

YieldVersionFile ==
    IF vsrc.version_file.exists /\ vsrc.version_file.readable
    THEN Strip(vsrc.version_file.text)
    ELSE <<>>

YieldTag ==
    IF vsrc.ref_type = "tag" /\ vsrc.ref_name # <<>> THEN vsrc.ref_name
    ELSE IF Truthy(vsrc.git_tag) THEN vsrc.git_tag.val
    ELSE <<>>

YieldEnv == IF vsrc.env_ver.some THEN Strip(vsrc.env_ver.val) ELSE <<>>

\* C9: a source that yields a value while every source before it yields
\* nothing gives the result, whatever the later sources hold, and a source
\* is used only when every source before it yields nothing.  Order:
\* override, version.json, VERSION file, tag.
C9_SourcePriority ==
    /\ vout.script = "read_version" =>
          /\ YieldOverride # <<>> => vout.stdout = <<YieldOverride>>
          /\ (YieldOverride = <<>> /\ YieldVersionJson # <<>>)
                => vout.stdout = <<YieldVersionJson>>
          /\ (YieldOverride = <<>> /\ YieldVersionJson = <<>> /\ YieldVersionFile # <<>>)
                => vout.stdout = <<YieldVersionFile>>
          /\ vout.source = "version_json" => YieldOverride = <<>>
          /\ vout.source = "version_file" =>
                YieldOverride = <<>> /\ YieldVersionJson = <<>>
          /\ vout.source = "tag" =>
                /\ YieldOverride = <<>> /\ YieldVersionJson = <<>>
                /\ YieldVersionFile = <<>>
                /\ vout.stdout = <<YieldTag>>
    /\ vout.script = "get_pack_version" =>
          /\ YieldEnv # <<>> => vout.stdout = <<YieldEnv>>
          /\ (YieldEnv = <<>> /\ ~Truthy(vsrc.env_ver) /\ YieldVersionFile # <<>>)
                => vout.stdout = <<YieldVersionFile>>
          /\ vout.source \in {"version_file", "automation_version_file"}
                => YieldEnv = <<>>

\* version.json answers although the VERSION file and a tag are there too
C9_Witness ==
    /\ vout.script = "read_version"
    /\ YieldOverride = <<>>
    /\ vsrc.version_json = VersionJson(Some(<<>>), Some(PV_1_1_0), None)
    /\ YieldVersionFile = PV_1_0_0
    /\ YieldTag = TAG_V1_0
    /\ vout.stdout = <<PV_1_1_0>>

\* no source of read_version.py yields anything
NoReadVersionSource ==
    /\ YieldOverride = <<>>
    /\ YieldVersionJson = <<>>
    /\ ~vsrc.version_file.exists
    /\ YieldTag = <<>>

\* no source of get_pack_version yields anything
NoPackVersionSource ==
    /\ ~Truthy(vsrc.env_ver)
    /\ ~vsrc.version_file.exists
    /\ ~vsrc.automation_version.exists

\* C10: with no version source, and with an unreachable or malformed
\* catalog, the run ends with a non-zero status and a diagnostic, and
\* prints nothing on stdout.
C10_NoSourceIsFatal ==
    /\ (vout.script = "read_version" /\ NoReadVersionSource) =>
          /\ vout.exit_code \notin {Running, 0}
          /\ vout.stderr # <<>>
          /\ vout.stdout = <<>>
    /\ (vout.script = "get_pack_version" /\ NoPackVersionSource) =>
          /\ vout.exit_code \notin {Running, 0}
          /\ vout.stderr # <<>>
          /\ vout.stdout = <<>>
    /\ catalog.status \in {"unreachable", "malformed"} =>
          /\ exit_code \notin {Running, 0}
          /\ stderr # <<>>
          /\ stdout = <<>>

\* the project lookup has been answered
LookupAnswered == lookup # "none"

\* C11: the project id is absent only after a "not found" answer; every
\* other failed lookup, the answer without `id` and `project_id` included,
\* ends the run with status 1 and is never reported as a project with no
\* versions yet.
C11_OnlyNotFoundIsAbsent ==
    LookupAnswered =>
        /\ lookup \notin {"found", "404"} => (pc = "exit" /\ exit_code = 1)
        /\ (pc # "exit" /\ ~canonical_id.some) => lookup = "404"
        /\ Count(stderr, Diag("[+] No existing versions on Modrinth", 0)) > 0 => lookup = "404"

\* the catalog entries of type release with an id and a format id, as
\* MinecraftVersion records in catalog order
ReleasesOf(body) ==
    LET kept == SelectSeq(body, LAMBDA e : e.type = "release" /\ e.id.some
                                           /\ e.resource_pack_version.some)
    IN [i \in 1..Len(kept) |-> MinecraftVersion(kept[i].id.val, kept[i].resource_pack_version.val)]

\* C12: whenever the catalog answers with a list of entries, the reader
\* returns, in catalog order, exactly the release entries that carry a
\* format id, and the entries it drops (wrong type, no format id, no id)
\* do not make the run fail.
C12_DroppedEntriesAreHarmless ==
    catalog.status = "ok" =>
        /\ mc_releases = ReleasesOf(catalog.body)
        /\ requests = <<"catalog">> => (pc = "resolve_project" /\ exit_code = Running)

\* ------------------------------------------------------------------------
\* Properties of the publisher
\* ------------------------------------------------------------------------

\* the registry accepted an upload of this run
Published == \E i \in 1..Len(up_requests) : up_requests[i].answer = "ok"

\* C13: a run of the publisher issues at most one upload request; a
\* request that fails is answered with the failure flag and ends the run
\* with a non-zero status, with no second request; the archive is removed
\* only after a successful publish, and the run then ends with status 0
\* whether or not the removal worked.
C13_SingleAttempt ==
    /\ Len(up_requests) <= 1
    /\ \A i \in 1..Len(up_requests) :
          up_requests[i].answer # "ok" =>
              /\ ~up_requests[i].ret
              /\ up_pc = "exit"
              /\ up_exit_code \notin {Running, 0}
    /\ up_remove # "none" => Published
    /\ (Len(up_requests) > 0 /\ up_remove # "ok") => up_archive
    /\ up_pc = "done" => (Published /\ up_remove # "none" /\ up_exit_code = 0)

\* a request answered with an HTTP error: one request, status 1, archive kept
C13_Witness ==
    /\ Len(up_requests) = 1
    /\ up_requests[1].answer = "http_error"
    /\ up_exit_code = 1
    /\ up_archive

\* ------------------------------------------------------------------------
\* Properties of the reconciliation
\* ------------------------------------------------------------------------

\* C14: once every group of the worklist has been published with its full
\* version list under its version_number, resolving again with the same
\* catalog and pack version yields an empty worklist.
C14_Converges ==
    rc_round >= 2 => NeedsUpload(rc_groups) = <<>>

\* ------------------------------------------------------------------------
\* Properties of extract_groups.py
\* ------------------------------------------------------------------------

\* extract_groups.py printed this line
Emitted(name, i, value) == Count(ex_stdout, EnvLine(name, i, value)) > 0

\* C15: run on the document the resolver wrote, extract_groups emits for
\* worklist group i its format id as GROUP_i_PACK_FORMAT and its game
\* versions, joined with commas and never empty, as GROUP_i_VERSIONS, and
\* the number of worklist groups as TOTAL_GROUPS.
C15_ExtractMatchesWorklist ==
    ex_exit_code = 0 =>
        LET worklist == NeedsUpload(format_groups)
        IN /\ Emitted("TOTAL_GROUPS", 0, IntToStr(Len(worklist)))
           /\ \A i \in 1..Len(worklist) :
                 /\ Emitted("PACK_FORMAT", i - 1, IntToStr(worklist[i].pack_format))
                 /\ Emitted("VERSIONS", i - 1, Join(worklist[i].all_versions, <<",">>))
                 /\ ~Emitted("VERSIONS", i - 1, <<>>)

====
